---- MODULE Spec2Model ----
(***************************************************************************)
(* Model of the authentication / authorization pipeline and of the         *)
(* transactional commands (signup, video ingest) of nestjs-video-system.   *)
(*                                                                         *)
(* One logical task per inbound request.  A task starts a request, the     *)
(* global JwtAuthGuard decides it, and the route's handler then runs step  *)
(* by step (one action per awaited call of the handler).                   *)
(***************************************************************************)
EXTENDS Integers, Sequences, FiniteSets, TLC

\* ------------------------------------------------------------------ bounds
MaxRequests == 2
MaxAuthRequests == 3
MaxTicks == 1
MaxSignups == 2
MaxPublicRequests == 1
MaxSessionRequests == 3
MaxVideoRequests == 3
PoolSize == 2

\* ------------------------------------------------------- program constants
\* expiresIn: '1d' and '30d', in seconds (JWT iat/exp have 1 s resolution)
AccessTtl == 86400
RefreshTtl == 2592000

Tasks == {"t1", "t2"}
Emails == {"a@x.com", "b@x.com"}
Passwords == {"pw123456", "other"}
Extensions == {"mp4", "mov"}

VARIABLES
  users,          \* committed rows of table user: [id, email, password, role]
  refreshTokens,  \* committed rows of table refresh_token: [id, user, token]
  videos,         \* committed rows of table video: [id, mimetype, user, downloadCnt]
  blobs,          \* files of video-storage: <<video id, extension>>
  events,         \* VideoCreatedEvents published on the EventBus (video ids)
  checkedOut,     \* connections checked out of the pool
  now,            \* the clock, in seconds
  ticks,          \* clock advances so far
  nreq,           \* requests started so far
  nextId,         \* next generated uuid
  known,          \* tokens handed to clients by earlier responses
  superseded,     \* refresh tokens handed out before a later signin or refresh
                  \* of their account succeeded
  failedIngests,  \* ids of the video rows whose blob write failed
  pc,             \* pc[t]: position of task t in its handler
  req,            \* req[t]: the request task t serves
  guard,          \* guard[t]: outcome of JwtAuthGuard.canActivate for req[t]
  qr,             \* qr[t]: the QueryRunner of task t's transactional command
  loc,            \* loc[t]: locals of task t's handler
  ret,            \* ret[t]: what the caller of task t's request received
  hist            \* hist[t]: observations of task t's current request

vars == <<users, refreshTokens, videos, blobs, events, checkedOut, now, ticks,
          nreq, nextId, known, superseded, failedIngests, pc, req, guard, qr, loc,
          ret, hist>>

dbVars == <<users, refreshTokens, videos>>
envVars == <<now, ticks>>

\* ------------------------------------------------------------------ tokens
\* Token payload {sub, tokenType, iat, exp}; sig tells whether the signature
\* was made with the configured secret.  Signing is deterministic, so two
\* tokens with the same subject and kind issued within one second are the
\* same string.
NoToken == [sub |-> 0, kind |-> "none", iat |-> 0, sig |-> "none"]

Ttl(kind) == IF kind = "refresh" THEN RefreshTtl ELSE AccessTtl

genereateAccessToken(userId) ==
  [sub |-> userId, kind |-> "access", iat |-> now, sig |-> "good"]

\* a refresh token signed over a payload that lacks the user id
genereateRefreshTokenNoSub(userId) ==
  [sub |-> 0, kind |-> "refresh", iat |-> now, sig |-> "good"]

genereateRefreshToken(userId) ==
  [sub |-> userId, kind |-> "refresh", iat |-> now, sig |-> "good"]

\* passport-jwt: secretOrKey, ignoreExpiration: false
VerifyToken(tok) == tok.sig = "good" /\ now < tok.iat + Ttl(tok.kind)

\* ------------------------------------------------------------------ routes
Routes == {"signup", "signin", "refresh", "users", "upload", "videos", "download"}
PublicRoutes == {"signup", "signin"}
RoleRoutes == {"users"}

\* a guard that finds the isPublic metadata on no route
IsPublicNever(route) == route \in PublicRoutes \ Routes

\* reflector.getAllAndOverride(IS_PUBLIC_KEY, [handler, class])
IsPublic(route) == route \in PublicRoutes

RequiredRoles(route) == IF route \in RoleRoutes THEN {"admin"} ELSE {}

\* the urls under which a route is requested
Urls(route) ==
  CASE route = "signup" -> {"/api/auth/signup"}
    [] route = "signin" -> {"/api/auth/signin"}
    [] route = "refresh" -> {"/api/auth/refresh", "/api/auth/refresh?"}
    [] route = "users" -> {"/api/users"}
    [] route = "upload" -> {"/api/videos"}
    [] route = "videos" -> {"/api/videos?"}
    [] route = "download" -> {"/api/videos/:id/download"}

\* ------------------------------------------------------------------- guard
NoUser == [id |-> 0]
AuthForms == {"absent", "nobearer", "bearer_empty", "garbage", "jwt"}

UserById(id) == {u \in users : u.id = id}

\* a lookup that accepts every existing account
checkUserExists(id) == IF UserById(id) = {} THEN "crash" ELSE "true"

\* UserService.checkUserIsAdmin: "crash" is the TypeError of user.role on null
checkUserIsAdmin(id) ==
  IF UserById(id) = {} THEN "crash"
  ELSE IF \E u \in UserById(id) : u.role = "admin" THEN "true" ELSE "false"

Decision(state, error, user, verified) ==
  [state |-> state, error |-> error, user |-> user, verified |-> verified, at |-> now]

\* super.canActivate: the passport strategy verifies the bearer token and
\* stores validate(payload) in request.user
PassportCanActivate(tok) ==
  IF VerifyToken(tok)
  THEN Decision("Allowed", "none", [id |-> tok.sub], TRUE)
  ELSE Decision("TokenInvalid", "Unauthorized", NoUser, FALSE)

RoleGate(tok) ==
  LET r == checkUserIsAdmin(tok.sub) IN
  IF r = "crash" THEN Decision("Crashed", "TypeError", NoUser, FALSE)
  ELSE IF r = "true" THEN Decision("Allowed", "none", NoUser, FALSE)
  ELSE Decision("RoleDenied", "Forbidden", NoUser, FALSE)

\* the kind gate with the comparison of the url left out of effect: it
\* rejects no token
KindGateNever(url, tok) == url # url /\ tok.kind = "refresh"

\* line 69: a refresh token is rejected everywhere but at /api/auth/refresh
KindGateRejects(url, tok) == url # "/api/auth/refresh" /\ tok.kind = "refresh"

canActivate(route, url, auth) ==
  IF IsPublic(route) THEN Decision("PublicAllowed", "none", NoUser, FALSE)
  ELSE IF auth.form = "absent" THEN Decision("TokenMissing", "Unauthorized", NoUser, FALSE)
  ELSE IF auth.form = "nobearer" THEN Decision("TokenMissing", "Unauthorized", NoUser, FALSE)
  ELSE IF auth.form = "bearer_empty" THEN Decision("Crashed", "TypeError", NoUser, FALSE)
  ELSE IF auth.form = "garbage" THEN Decision("Crashed", "TypeError", NoUser, FALSE)
  ELSE IF KindGateRejects(url, auth.token)
       THEN Decision("KindMismatch", "AccessTokenRequired", NoUser, FALSE)
  ELSE IF RequiredRoles(route) # {} THEN RoleGate(auth.token)
  ELSE PassportCanActivate(auth.token)

\* ------------------------------------------------------------- task state
NoAuth == [form |-> "absent", token |-> NoToken]

NoReq ==
  [route |-> "none", url |-> "", auth |-> NoAuth, email |-> "", password |-> "",
   passwordConfirm |-> "", extension |-> "", mimetype |-> "", id |-> 0]

NoDecision ==
  [state |-> "Unchecked", error |-> "none", user |-> NoUser, verified |-> FALSE, at |-> 0]

\* a QueryRunner: acquired = it holds a pooled connection, txActive =
\* isTransactionActive, the w* sets are the uncommitted writes of its
\* transaction, releases counts the calls of release()
FreshRunner ==
  [acquired |-> FALSE, txActive |-> FALSE, aborted |-> FALSE, isReleased |-> FALSE,
   releases |-> 0, wUsers |-> {}, wTokens |-> {}, wVideos |-> {}]

NoRow == [id |-> 0]

NoLoc ==
  [userEntity |-> NoRow, accessToken |-> NoToken, refreshToken |-> NoToken,
   entity |-> NoRow, video |-> NoRow, error |-> "none", thrown |-> "none",
   floating |-> "none"]

NoRet ==
  [status |-> "none", error |-> "none", id |-> 0, accessToken |-> NoToken,
   refreshToken |-> NoToken, list |-> {}]

NoHist ==
  [acquired |-> 0, began |-> FALSE, committed |-> FALSE, rolledBack |-> FALSE,
   firstError |-> "none", failedAfterInsert |-> "none", published |-> 0,
   handlerRan |-> FALSE, order |-> <<>>]

Hash(password) == <<"bcrypt", password>>

SeedUsers ==
  { [id |-> 1, email |-> "root@x.com", password |-> Hash("rootpw"), role |-> "admin"],
    [id |-> 2, email |-> "a@x.com", password |-> Hash("pw123456"), role |-> "user"] }

FirstId == Cardinality(SeedUsers) + 1

\* the state after start-up, the database holding the accounts `seed`
InitWith(seed) ==
  /\ users = seed
  /\ refreshTokens = {}
  /\ videos = {}
  /\ blobs = {}
  /\ events = <<>>
  /\ checkedOut = 0
  /\ now = 0
  /\ ticks = 0
  /\ nreq = 0
  /\ nextId = FirstId
  /\ known = {}
  /\ superseded = {}
  /\ failedIngests = {}
  /\ pc = [t \in Tasks |-> "idle"]
  /\ req = [t \in Tasks |-> NoReq]
  /\ guard = [t \in Tasks |-> NoDecision]
  /\ qr = [t \in Tasks |-> FreshRunner]
  /\ loc = [t \in Tasks |-> NoLoc]
  /\ ret = [t \in Tasks |-> NoRet]
  /\ hist = [t \in Tasks |-> NoHist]

Init == InitWith({})

InitSeeded == \E seed \in {{}, SeedUsers} : InitWith(seed)

\* --------------------------------------------------------------- requests
\* what a client can put in the Authorization header: nothing, a string
\* without Bearer, Bearer without a token, Bearer with an undecodable token,
\* a token it was handed earlier, or a token it made itself (any payload,
\* signed without the secret) or still holds from before (signed, any age)
Subjects == {u.id : u \in users} \cup {0}

ForeignTokens ==
  [sub : Subjects, kind : {"access", "refresh"}, iat : {0}, sig : {"bad"}]

OldTokens ==
  [sub : {u.id : u \in users}, kind : {"access", "refresh"}, iat : {0}, sig : {"good"}]

Headers(tokens) ==
  {[form |-> f, token |-> NoToken] : f \in AuthForms \ {"jwt"}}
    \cup {[form |-> "jwt", token |-> k] : k \in tokens}

\* a client sends a request for `route` carrying `auth`; `body` gives the
\* fields of the request's body or parameters
StartRequest(t, route, auth, body) ==
  /\ pc[t] = "idle"
  /\ nreq' = nreq + 1
  /\ \E url \in Urls(route) :
       req' = [req EXCEPT ![t] = [body EXCEPT !.route = route, !.url = url, !.auth = auth]]
  /\ pc' = [pc EXCEPT ![t] = "guard"]
  /\ UNCHANGED <<dbVars, blobs, failedIngests, events, checkedOut, envVars, nextId, known, superseded,
                 guard, qr, loc, ret, hist>>

Fail(t, error) == [ret[t] EXCEPT !.status = "error", !.error = error]

\* JwtAuthGuard.canActivate decides the request; a denial is the response
\* a guard whose rejection is not thrown, so that every request goes on
AdmitsAll(d) == d.state # NoDecision.state

\* canActivate returned true; in every other case it threw
Admits(d) == d.state \in {"PublicAllowed", "Allowed"}

Guard(t) ==
  /\ pc[t] = "guard"
  /\ LET d == canActivate(req[t].route, req[t].url, req[t].auth) IN
       /\ guard' = [guard EXCEPT ![t] = d]
       /\ IF Admits(d)
          THEN /\ pc' = [pc EXCEPT ![t] = req[t].route]
               /\ ret' = ret
          ELSE /\ pc' = [pc EXCEPT ![t] = "done"]
               /\ ret' = [ret EXCEPT ![t] = Fail(t, d.error)]
  /\ UNCHANGED <<dbVars, blobs, failedIngests, events, checkedOut, envVars, nreq, nextId, known, superseded,
                 req, qr, loc, hist>>

\* the response was delivered; the task serves the next request
Finish(t) ==
  /\ pc[t] = "done"
  /\ pc' = [pc EXCEPT ![t] = "idle"]
  /\ req' = [req EXCEPT ![t] = NoReq]
  /\ guard' = [guard EXCEPT ![t] = NoDecision]
  /\ qr' = [qr EXCEPT ![t] = FreshRunner]
  /\ loc' = [loc EXCEPT ![t] = NoLoc]
  /\ ret' = [ret EXCEPT ![t] = NoRet]
  /\ hist' = [hist EXCEPT ![t] = NoHist]
  /\ UNCHANGED <<dbVars, blobs, failedIngests, events, checkedOut, envVars, nreq, nextId, known, superseded>>

\* the clock advances by a second, by an access-token or a refresh-token lifetime
Tick ==
  /\ ticks < MaxTicks
  /\ ticks' = ticks + 1
  /\ \E d \in {1, AccessTtl, RefreshTtl} : now' = now + d
  /\ UNCHANGED <<dbVars, blobs, failedIngests, events, checkedOut, nreq, nextId, known, superseded,
                 pc, req, guard, qr, loc, ret, hist>>

\* UserController.findAll: a read-only listing
UsersHandler(t) ==
  /\ pc[t] = "users"
  /\ pc' = [pc EXCEPT ![t] = "done"]
  /\ ret' = [ret EXCEPT ![t] = [NoRet EXCEPT !.status = "ok", !.list = {u.id : u \in users}]]
  /\ hist' = [hist EXCEPT ![t].handlerRan = TRUE]
  /\ UNCHANGED <<dbVars, blobs, failedIngests, events, checkedOut, envVars, nreq, nextId, known, superseded,
                 req, guard, qr, loc>>

\* ------------------------------------------------- transactional commands
others == <<envVars, nreq, known, superseded, req, guard>>

\* an exception raised inside the try block: control goes to the catch block
Throw(t, e) ==
  /\ pc' = [pc EXCEPT ![t] = "catch"]
  /\ loc' = [loc EXCEPT ![t].thrown = e]
  /\ hist' = [hist EXCEPT ![t].firstError = e,
                          ![t].failedAfterInsert =
                             IF pc[t] \in {"su_tokens", "vi_upload"} THEN pc[t] ELSE @]

\* an exception that leaves the handler: the caller receives it
Propagate(t, e) ==
  /\ pc' = [pc EXCEPT ![t] = "done"]
  /\ ret' = [ret EXCEPT ![t] = Fail(t, e)]

\* a controller that takes any confirmation for a match
PasswordConfirmedAlways(r) == r.password = r.password

\* AuthController.signup: password !== passwordConfirm
PasswordConfirmed(r) == r.password = r.passwordConfirm

\* AuthController.signup: the password check, then AuthService.signup's
\* createQueryRunner()
SignupController(t) ==
  /\ pc[t] = "signup"
  /\ IF ~PasswordConfirmed(req[t])
     THEN Propagate(t, "BadRequest:passwordConfirm")
     ELSE pc' = [pc EXCEPT ![t] = "su_connect"] /\ ret' = ret
  /\ hist' = [hist EXCEPT ![t].handlerRan = TRUE]
  /\ UNCHANGED <<dbVars, blobs, failedIngests, events, checkedOut, nextId, qr, loc, others>>

\* a connection is checked out of the pool for the runner
Acquire(t) ==
  /\ checkedOut < PoolSize
  /\ checkedOut' = checkedOut + 1

\* every connection of the pool is checked out: the pool queues the request
\* for a connection and the awaiting call stays where it is until one is
\* returned (no connection timeout is configured)
AwaitConnection(t) ==
  /\ checkedOut >= PoolSize
  /\ \A i \in DOMAIN hist[t].order : hist[t].order[i] # "wait"
  /\ hist' = [hist EXCEPT ![t].order = Append(@, "wait")]
  /\ UNCHANGED <<checkedOut, qr, pc, ret>>

\* await queryRunner.connect(), before the try block
Connect(t) ==
  /\ pc[t] = "su_connect"
  /\ \/ /\ Acquire(t)
        /\ qr' = [qr EXCEPT ![t].acquired = TRUE]
        /\ hist' = [hist EXCEPT ![t].acquired = @ + 1, ![t].order = Append(@, "connect")]
        /\ pc' = [pc EXCEPT ![t] = "su_begin"]
        /\ ret' = ret
     \/ /\ Propagate(t, "E_connect")
        /\ UNCHANGED <<checkedOut, qr, hist>>
     \/ AwaitConnection(t)
  /\ UNCHANGED <<dbVars, blobs, failedIngests, events, nextId, loc, others>>

AfterBegin(route) == IF route = "signup" THEN "su_find" ELSE "vi_findUser"

\* START TRANSACTION on the runner's connection
BeginOk(t) ==
  /\ qr' = [qr EXCEPT ![t].acquired = TRUE, ![t].txActive = TRUE]
  /\ hist' = [hist EXCEPT ![t].began = TRUE,
                          ![t].acquired = IF qr[t].acquired THEN @ ELSE @ + 1,
                          ![t].order = Append(@, "begin")]
  /\ pc' = [pc EXCEPT ![t] = AfterBegin(req[t].route)]
  /\ ret' = ret

BeginFails(t) ==
  /\ qr' = [qr EXCEPT ![t].acquired = TRUE]
  /\ hist' = [hist EXCEPT ![t].acquired = IF qr[t].acquired THEN @ ELSE @ + 1]
  /\ Propagate(t, "E_begin")

\* await queryRunner.startTransaction(), before the try block.  The runner
\* of CreateVideoHandler was not connected: its first query checks the
\* connection out.
StartTransaction(t) ==
  /\ pc[t] \in {"su_begin", "vi_begin"}
  /\ \/ /\ IF qr[t].acquired THEN checkedOut' = checkedOut ELSE Acquire(t)
        /\ BeginOk(t) \/ BeginFails(t)
     \/ /\ ~qr[t].acquired
        /\ Propagate(t, "E_connect")
        /\ UNCHANGED <<checkedOut, qr, hist>>
     \/ ~qr[t].acquired /\ AwaitConnection(t)
  /\ UNCHANGED <<dbVars, blobs, failedIngests, events, nextId, loc, others>>

UserByEmail(email) == {u \in users : u.email = email}

\* a lookup that never finds the account
findOneByEmailMiss(email) == {u \in UserByEmail(email) : u.email # email}

\* UserService.findOneByEmail: reads the committed rows through the
\* repository, outside the caller's transaction
findOneByEmail(email) == UserByEmail(email)

\* signup: userService.findOneByEmail(email) and the duplicate check
SignupFindUser(t) ==
  /\ pc[t] = "su_find"
  /\ \/ Throw(t, "E_find")
     \/ /\ findOneByEmail(req[t].email) # {}
        /\ Throw(t, "BadRequest:DuplicateAccount")
     \/ /\ findOneByEmail(req[t].email) = {}
        /\ pc' = [pc EXCEPT ![t] = "su_saveUser"]
        /\ UNCHANGED <<loc, hist>>
  /\ UNCHANGED <<dbVars, blobs, failedIngests, events, checkedOut, nextId, qr, ret, others>>

\* an index that lets an INSERT go ahead whatever other transactions hold
EmailNeverLocked(t, email) == email # email /\ qr[t].txActive

\* the unique index on user.email: an INSERT of an email that an open
\* transaction of another runner has inserted waits until that transaction
\* ends
EmailLocked(t, email) ==
  \E o \in Tasks \ {t} : qr[o].txActive /\ \E u \in qr[o].wUsers : u.email = email

\* signup: bcrypt.hash and await queryRunner.manager.save(userEntity); the
\* unique index on email rejects a second row
SignupSaveUser(t) ==
  /\ pc[t] = "su_saveUser"
  /\ \/ /\ Throw(t, "E_saveUser")
        /\ UNCHANGED <<qr, nextId>>
     \/ /\ ~EmailLocked(t, req[t].email)
        /\ UserByEmail(req[t].email) # {}
        /\ Throw(t, "QueryFailed:unique_email")
        /\ UNCHANGED <<qr, nextId>>
     \/ /\ ~EmailLocked(t, req[t].email)
        /\ UserByEmail(req[t].email) = {}
        /\ LET row == [id |-> nextId, email |-> req[t].email,
                       password |-> Hash(req[t].password), role |-> "user"] IN
             /\ qr' = [qr EXCEPT ![t].wUsers = @ \cup {row}]
             /\ loc' = [loc EXCEPT ![t].userEntity = row]
        /\ nextId' = nextId + 1
        /\ hist' = [hist EXCEPT ![t].order = Append(@, "saveUser")]
        /\ pc' = [pc EXCEPT ![t] = "su_tokens"]
  /\ UNCHANGED <<dbVars, blobs, failedIngests, events, checkedOut, ret, others>>

\* signup: genereateAccessToken, genereateRefreshToken, and
\* queryRunner.manager.save(refreshTokenEntity), which is not awaited: the
\* insert is left pending while signup goes on to commit
SignupTokens(t) ==
  /\ pc[t] = "su_tokens"
  /\ \/ Throw(t, "E_token")
     \/ /\ loc' = [loc EXCEPT ![t].accessToken = genereateAccessToken(loc[t].userEntity.id),
                              ![t].refreshToken = genereateRefreshToken(loc[t].userEntity.id),
                              ![t].floating = "pending"]
        /\ pc' = [pc EXCEPT ![t] = "commit"]
        /\ hist' = hist
  /\ UNCHANGED <<dbVars, blobs, failedIngests, events, checkedOut, nextId, qr, ret, others>>

RefreshTokenOf(userId) == {r \in refreshTokens : r.user = userId}

\* the pending insert of signup's refreshTokenEntity runs at some point
\* before the runner is released: inside the transaction, or after it ended
\* (then on its own, checked by the foreign key and the unique user_id of
\* the OneToOne join column).  A statement that fails on the server aborts
\* the open transaction.
FloatingSave(t) ==
  /\ loc[t].floating = "pending"
  /\ ~qr[t].isReleased
  /\ LET row == [id |-> nextId, user |-> loc[t].userEntity.id,
                 token |-> loc[t].refreshToken] IN
       \/ /\ qr[t].txActive /\ ~qr[t].aborted
          /\ qr' = [qr EXCEPT ![t].wTokens = @ \cup {row}]
          /\ loc' = [loc EXCEPT ![t].floating = "landed"]
          /\ nextId' = nextId + 1
          /\ UNCHANGED refreshTokens
       \/ /\ ~qr[t].txActive
          /\ UserById(row.user) # {} /\ RefreshTokenOf(row.user) = {}
          /\ refreshTokens' = refreshTokens \cup {row}
          /\ loc' = [loc EXCEPT ![t].floating = "landed"]
          /\ nextId' = nextId + 1
          /\ UNCHANGED qr
       \/ /\ loc' = [loc EXCEPT ![t].floating = "failed"]
          /\ \E abort \in BOOLEAN :
               qr' = [qr EXCEPT ![t].aborted = @ \/ (abort /\ qr[t].txActive)]
          /\ UNCHANGED <<refreshTokens, nextId>>
  /\ UNCHANGED <<users, videos, blobs, failedIngests, events, checkedOut, pc, ret, hist, others>>

AfterCommit(route) == IF route = "signup" THEN "finally" ELSE "vi_publish"

\* a commit that reports success without making the writes durable
CommitNotDurable(t) ==
  /\ UNCHANGED dbVars
  /\ qr' = [qr EXCEPT ![t].txActive = FALSE, ![t].wUsers = {}, ![t].wTokens = {},
                      ![t].wVideos = {}]
  /\ hist' = [hist EXCEPT ![t].committed = TRUE, ![t].order = Append(@, "commit")]
  /\ pc' = [pc EXCEPT ![t] = AfterCommit(req[t].route)]
  /\ loc' = loc

\* await queryRunner.commitTransaction(): COMMIT makes the transaction's
\* writes durable; on an aborted transaction the server answers COMMIT by
\* rolling back and reports no error
CommitOk(t) ==
  /\ users' = IF qr[t].aborted THEN users ELSE users \cup qr[t].wUsers
  /\ refreshTokens' = IF qr[t].aborted THEN refreshTokens
                      ELSE refreshTokens \cup qr[t].wTokens
  /\ videos' = IF qr[t].aborted THEN videos ELSE videos \cup qr[t].wVideos
  /\ qr' = [qr EXCEPT ![t].txActive = FALSE, ![t].aborted = FALSE,
                      ![t].wUsers = {}, ![t].wTokens = {}, ![t].wVideos = {}]
  /\ hist' = [hist EXCEPT ![t].committed = ~qr[t].aborted,
                          ![t].order = Append(@, "commit")]
  /\ pc' = [pc EXCEPT ![t] = AfterCommit(req[t].route)]
  /\ loc' = loc

Commit(t) ==
  /\ pc[t] = "commit"
  /\ \/ CommitOk(t)
     \/ /\ Throw(t, "E_commit")
        /\ UNCHANGED <<dbVars, qr>>
  /\ UNCHANGED <<blobs, failedIngests, events, checkedOut, nextId, ret, others>>

\* a catch block that ends the transaction by committing it
RollbackCommits(t) ==
  /\ qr[t].txActive
  /\ users' = users \cup qr[t].wUsers
  /\ refreshTokens' = refreshTokens \cup qr[t].wTokens
  /\ videos' = videos \cup qr[t].wVideos
  /\ qr' = [qr EXCEPT ![t].txActive = FALSE, ![t].wUsers = {}, ![t].wTokens = {},
                      ![t].wVideos = {}]
  /\ loc' = [loc EXCEPT ![t].error = loc[t].thrown, ![t].thrown = "none"]
  /\ hist' = [hist EXCEPT ![t].rolledBack = TRUE, ![t].order = Append(@, "rollback")]

\* await queryRunner.rollbackTransaction(); error = e;
RollbackOk(t) ==
  /\ qr[t].txActive
  /\ qr' = [qr EXCEPT ![t].txActive = FALSE, ![t].aborted = FALSE,
                      ![t].wUsers = {}, ![t].wTokens = {}, ![t].wVideos = {}]
  /\ loc' = [loc EXCEPT ![t].error = loc[t].thrown, ![t].thrown = "none"]
  /\ hist' = [hist EXCEPT ![t].rolledBack = TRUE, ![t].order = Append(@, "rollback")]
  /\ UNCHANGED dbVars

\* rollbackTransaction throws TransactionNotStartedError when no
\* transaction is active, and may fail (the connection is lost, and the
\* server drops the transaction); then `error = e` is never reached
RollbackFails(t) ==
  /\ loc' = [loc EXCEPT ![t].thrown =
               IF qr[t].txActive THEN "E_rollback" ELSE "TransactionNotStartedError"]
  /\ hist' = [hist EXCEPT ![t].order = Append(@, "rollback")]
  /\ UNCHANGED <<qr, dbVars>>

Catch(t) ==
  /\ pc[t] = "catch"
  /\ RollbackOk(t) \/ RollbackFails(t)
  /\ pc' = [pc EXCEPT ![t] = "finally"]
  /\ UNCHANGED <<blobs, failedIngests, events, checkedOut, nextId, ret, others>>

\* what the command returns when its try block ran to the end
Result(t) ==
  IF req[t].route = "signup"
  THEN [NoRet EXCEPT !.status = "ok", !.id = loc[t].userEntity.id,
                     !.accessToken = loc[t].accessToken,
                     !.refreshToken = loc[t].refreshToken]
  ELSE [NoRet EXCEPT !.status = "ok", !.id = loc[t].video.id]

Handed(r) == {r.accessToken, r.refreshToken} \ {NoToken}

\* finally { await queryRunner.release(); if (error) throw error; }
\* a runner that was released rejects the queries still pending on it
Release(t) ==
  /\ checkedOut' = checkedOut - 1
  /\ qr' = [qr EXCEPT ![t].acquired = FALSE, ![t].isReleased = TRUE,
                      ![t].releases = @ + 1, ![t].txActive = FALSE,
                      ![t].wUsers = {}, ![t].wTokens = {}, ![t].wVideos = {}]
  /\ loc' = [loc EXCEPT ![t].floating = IF @ = "pending" THEN "failed" ELSE @]
  /\ hist' = [hist EXCEPT ![t].order = Append(@, "release")]

Finally(t) ==
  /\ pc[t] = "finally"
  /\ Release(t)
  /\ pc' = [pc EXCEPT ![t] = "done"]
  /\ ret' = [ret EXCEPT ![t] =
               IF loc[t].error # "none" THEN Fail(t, loc[t].error)
               ELSE IF loc[t].thrown # "none" THEN Fail(t, loc[t].thrown)
               ELSE Result(t)]
  /\ known' = IF loc[t].error = "none" /\ loc[t].thrown = "none"
              THEN known \cup Handed(Result(t)) ELSE known
  /\ UNCHANGED superseded
  /\ UNCHANGED <<dbVars, blobs, failedIngests, events, nextId, envVars, nreq, req, guard>>

\* ------------------------------------------------------------ video ingest
Subtype(mimetype) == IF mimetype = "video/mp4" THEN "mp4" ELSE "quicktime"

\* VideoController.upload: builds the CreateVideoCommand for user.id and
\* executes it; CreateVideoHandler.execute starts with createQueryRunner()
UploadController(t) ==
  /\ pc[t] = "upload"
  /\ pc' = [pc EXCEPT ![t] = "vi_begin"]
  /\ hist' = [hist EXCEPT ![t].handlerRan = TRUE]
  /\ UNCHANGED <<dbVars, blobs, failedIngests, events, checkedOut, nextId, qr, loc, ret, others>>

\* ingest: queryRunner.manager.findOneBy(User, { id: userId }); null when
\* there is no such account
IngestFindUser(t) ==
  /\ pc[t] = "vi_findUser"
  /\ \/ Throw(t, "E_find")
     \/ /\ loc' = [loc EXCEPT ![t].userEntity =
                     IF UserById(guard[t].user.id) = {} THEN NoRow
                     ELSE [id |-> guard[t].user.id]]
        /\ pc' = [pc EXCEPT ![t] = "vi_save"]
        /\ hist' = hist
  /\ UNCHANGED <<dbVars, blobs, failedIngests, events, checkedOut, nextId, qr, ret, others>>

\* ingest: save(create(Video, { title, mimetype, user })); user_id is
\* nullable, download_cnt defaults to 0
IngestSaveVideo(t) ==
  /\ pc[t] = "vi_save"
  /\ \/ /\ Throw(t, "E_saveVideo")
        /\ UNCHANGED <<qr, nextId>>
     \/ /\ LET row == [id |-> nextId, mimetype |-> req[t].mimetype,
                       user |-> loc[t].userEntity.id, downloadCnt |-> 0] IN
             /\ qr' = [qr EXCEPT ![t].wVideos = @ \cup {row}]
             /\ loc' = [loc EXCEPT ![t].video = row]
        /\ nextId' = nextId + 1
        /\ hist' = [hist EXCEPT ![t].order = Append(@, "saveVideo")]
        /\ pc' = [pc EXCEPT ![t] = "vi_upload"]
  /\ UNCHANGED <<dbVars, blobs, failedIngests, events, checkedOut, ret, others>>

BlobKey(id, extension) == [id |-> id, extension |-> extension]

\* a write that is started and not awaited: the handler goes on to commit
\* whether or not the file gets written
uploadVideoUnawaited(t) ==
  /\ pc[t] = "vi_upload"
  /\ LET key == BlobKey(loc[t].video.id, req[t].extension) IN
       \E written \in BOOLEAN :
         blobs' = IF written THEN blobs \cup {[key |-> key, complete |-> TRUE]} ELSE blobs
  /\ pc' = [pc EXCEPT ![t] = "commit"]
  /\ hist' = [hist EXCEPT ![t].order = Append(@, "blob")]
  /\ UNCHANGED <<loc, failedIngests>>
  /\ UNCHANGED <<dbVars, events, checkedOut, nextId, qr, ret, others>>

\* ingest: uploadVideo writes video-storage/<id>.<extension>; a failed
\* write may leave the file behind
uploadVideo(t) ==
  /\ pc[t] = "vi_upload"
  /\ LET key == BlobKey(loc[t].video.id, req[t].extension) IN
       \/ /\ blobs' = blobs \cup {[key |-> key, complete |-> TRUE]}
          /\ pc' = [pc EXCEPT ![t] = "commit"]
          /\ hist' = [hist EXCEPT ![t].order = Append(@, "blob")]
          /\ loc' = loc
          /\ UNCHANGED failedIngests
       \/ /\ Throw(t, "E_blob")
          /\ failedIngests' = failedIngests \cup {loc[t].video.id}
          /\ \E partial \in BOOLEAN :
               blobs' = IF partial THEN blobs \cup {[key |-> key, complete |-> FALSE]}
                        ELSE blobs
  /\ UNCHANGED <<dbVars, events, checkedOut, nextId, qr, ret, others>>

\* a handler that returns the video without publishing its event
PublishSkipped(t) ==
  /\ pc[t] = "vi_publish"
  /\ pc' = [pc EXCEPT ![t] = "finally"]
  /\ UNCHANGED <<events, hist, loc>>
  /\ UNCHANGED <<dbVars, blobs, failedIngests, checkedOut, nextId, qr, ret, others>>

\* ingest: this.eventBus.publish(new VideoCreatedEvent(video.id)), inside
\* the try block, after the commit
Publish(t) ==
  /\ pc[t] = "vi_publish"
  /\ \/ /\ events' = Append(events, loc[t].video.id)
        /\ hist' = [hist EXCEPT ![t].published = @ + 1, ![t].order = Append(@, "publish")]
        /\ pc' = [pc EXCEPT ![t] = "finally"]
        /\ loc' = loc
     \/ /\ Throw(t, "E_publish")
        /\ UNCHANGED events
  /\ UNCHANGED <<dbVars, blobs, failedIngests, checkedOut, nextId, qr, ret, others>>

\* FindVideosQueryHandler.execute: one page of the committed rows (the
\* query has no ORDER BY: any rows of the right number)
Min(a, b) == IF a < b THEN a ELSE b

PageLen(n, page, size) ==
  IF n <= (page - 1) * size THEN 0 ELSE Min(size, n - (page - 1) * size)

FindVideos(t) ==
  /\ pc[t] = "videos"
  /\ \E page \in 1..2, size \in 1..2 :
       \E rows \in SUBSET videos :
         /\ Cardinality(rows) = PageLen(Cardinality(videos), page, size)
         /\ ret' = [ret EXCEPT ![t] = [NoRet EXCEPT !.status = "ok",
                                                    !.list = {v.id : v \in rows}]]
  /\ pc' = [pc EXCEPT ![t] = "done"]
  /\ hist' = [hist EXCEPT ![t].handlerRan = TRUE]
  /\ UNCHANGED <<dbVars, blobs, failedIngests, events, checkedOut, nextId, qr, loc, others>>

\* ---------------------------------------------------------------- download
VideoById(id) == {v \in videos : v.id = id}

\* VideoService.download: findOneBy({ id })
DownloadFind(t) ==
  /\ pc[t] = "download"
  /\ IF VideoById(req[t].id) = {}
     THEN Propagate(t, "NotFound") /\ loc' = loc
     ELSE /\ loc' = [loc EXCEPT ![t].video = CHOOSE v \in VideoById(req[t].id) : TRUE]
          /\ pc' = [pc EXCEPT ![t] = "dl_update"]
          /\ ret' = ret
  /\ hist' = [hist EXCEPT ![t].handlerRan = TRUE]
  /\ UNCHANGED <<dbVars, blobs, failedIngests, events, checkedOut, nextId, qr, others>>

\* an update that writes back the count read by findOneBy, plus one
DownloadCountFromRead(t) ==
  /\ pc[t] = "dl_update"
  /\ videos' = {IF v.id = req[t].id
                 THEN [v EXCEPT !.downloadCnt = loc[t].video.downloadCnt + 1] ELSE v :
                  v \in videos}
  /\ pc' = [pc EXCEPT ![t] = "dl_stat"]
  /\ UNCHANGED <<users, refreshTokens, blobs, failedIngests, events, checkedOut, nextId, qr, loc,
                 ret, hist, others>>

\* VideoService.download: update({ id }, { downloadCnt: () => 'download_cnt + 1' })
DownloadCount(t) ==
  /\ pc[t] = "dl_update"
  /\ videos' = {IF v.id = req[t].id THEN [v EXCEPT !.downloadCnt = @ + 1] ELSE v :
                  v \in videos}
  /\ pc' = [pc EXCEPT ![t] = "dl_stat"]
  /\ UNCHANGED <<users, refreshTokens, blobs, failedIngests, events, checkedOut, nextId, qr, loc,
                 ret, hist, others>>

\* VideoService.download: stat and createReadStream of
\* video-storage/<id>.<subtype of the stored mimetype>
DownloadStat(t) ==
  /\ pc[t] = "dl_stat"
  /\ LET key == BlobKey(req[t].id, Subtype(loc[t].video.mimetype)) IN
       IF \E b \in blobs : b.key = key
       THEN /\ pc' = [pc EXCEPT ![t] = "done"]
            /\ ret' = [ret EXCEPT ![t] = [NoRet EXCEPT !.status = "ok", !.id = req[t].id]]
       ELSE Propagate(t, "ENOENT")
  /\ UNCHANGED <<dbVars, blobs, failedIngests, events, checkedOut, nextId, qr, loc, hist, others>>

\* ------------------------------------------------------- signin and refresh
\* AuthService.signin: validateUser(email, password), then
\* genereateRefreshToken(user.id)
SigninValidate(t) ==
  /\ pc[t] = "signin"
  /\ LET found == findOneByEmail(req[t].email) IN
       IF found = {}
       THEN Propagate(t, "Unauthorized:no such user") /\ loc' = loc
       ELSE LET user == CHOOSE u \in found : TRUE IN
            IF user.password # Hash(req[t].password)
            THEN Propagate(t, "Unauthorized:password mismatch") /\ loc' = loc
            ELSE /\ loc' = [loc EXCEPT ![t].userEntity = user,
                                       ![t].refreshToken = genereateRefreshToken(user.id)]
                 /\ pc' = [pc EXCEPT ![t] = "si_find"]
                 /\ ret' = ret
  /\ hist' = [hist EXCEPT ![t].handlerRan = TRUE]
  /\ UNCHANGED <<dbVars, blobs, failedIngests, events, checkedOut, nextId, qr, others>>

\* createRefreshTokenUsingUser: findOneBy({ user: { id: userId } })
SigninFindToken(t) ==
  /\ pc[t] = "si_find"
  /\ LET found == RefreshTokenOf(loc[t].userEntity.id) IN
       loc' = [loc EXCEPT ![t].entity =
                 IF found = {} THEN NoRow ELSE CHOOSE r \in found : TRUE]
  /\ pc' = [pc EXCEPT ![t] = "si_save"]
  /\ UNCHANGED <<dbVars, blobs, failedIngests, events, checkedOut, nextId, qr, ret, hist, others>>

RowById(id) == {r \in refreshTokens : r.id = id}

\* a save that inserts a row whatever the entity's id is
SaveAppends(entity, userId, token) ==
  refreshTokens \cup {[id |-> nextId + 1, user |-> userId, token |-> token]}

\* Repository.save of a refresh_token row: an UPDATE of the row with the
\* entity's id when there is one, else an INSERT, which the unique user_id
\* can reject
SaveRefreshToken(entity, userId, token) ==
  IF entity.id # 0 /\ RowById(entity.id) # {}
  THEN (refreshTokens \ RowById(entity.id))
         \cup {[id |-> entity.id, user |-> entity.user, token |-> token]}
  ELSE refreshTokens
         \cup {[id |-> IF entity.id # 0 THEN entity.id ELSE nextId,
                user |-> userId, token |-> token]}

\* a refresh_token table without the unique user_id: no insert is rejected
SaveNeverRejected(entity, userId) ==
  /\ ~(entity.id # 0 /\ RowById(entity.id) # {})
  /\ RefreshTokenOf(userId) # RefreshTokenOf(userId)

SaveRejected(entity, userId) ==
  /\ ~(entity.id # 0 /\ RowById(entity.id) # {})
  /\ RefreshTokenOf(userId) # {}

\* the refresh tokens of account userId that clients were handed so far
HandedRefresh(userId) == {k \in known : k.kind = "refresh" /\ k.sub = userId}

\* createRefreshTokenUsingUser: save; then signin returns the new access
\* token and the refresh token
SigninSave(t) ==
  /\ pc[t] = "si_save"
  /\ IF SaveRejected(loc[t].entity, loc[t].userEntity.id)
     THEN /\ Propagate(t, "QueryFailed:unique_user")
          /\ UNCHANGED <<refreshTokens, nextId, known, superseded>>
     ELSE /\ refreshTokens' =
               SaveRefreshToken(loc[t].entity, loc[t].userEntity.id, loc[t].refreshToken)
          /\ nextId' = IF loc[t].entity.id = 0 THEN nextId + 1 ELSE nextId
          /\ LET r == [NoRet EXCEPT !.status = "ok",
                                    !.accessToken = genereateAccessToken(loc[t].userEntity.id),
                                    !.refreshToken = loc[t].refreshToken] IN
               /\ ret' = [ret EXCEPT ![t] = r]
               /\ known' = known \cup Handed(r)
          /\ superseded' = superseded \cup HandedRefresh(loc[t].userEntity.id)
          /\ pc' = [pc EXCEPT ![t] = "done"]
  /\ UNCHANGED <<users, videos, blobs, failedIngests, events, checkedOut, qr, loc, hist,
                 envVars, nreq, req, guard>>

\* a lookup of the stored row by the account the token names
FindBySubject(token) == {r \in refreshTokens : r.user = token.sub}

\* refreshTokenRepository.findOneBy({ token })
FindByToken(token) == {r \in refreshTokens : r.token = token}

\* AuthController.refresh takes the bearer token of the header and user.id;
\* AuthService.refresh: findOneBy({ token }), then the two new tokens
RefreshFind(t) ==
  /\ pc[t] = "refresh"
  /\ LET found == FindByToken(req[t].auth.token) IN
       IF found = {}
       THEN Propagate(t, "BadRequest:InvalidRefreshToken") /\ loc' = loc
       ELSE /\ loc' = [loc EXCEPT ![t].entity = CHOOSE r \in found : TRUE,
                                  ![t].accessToken = genereateAccessToken(guard[t].user.id),
                                  ![t].refreshToken = genereateRefreshToken(guard[t].user.id)]
            /\ pc' = [pc EXCEPT ![t] = "rf_save"]
            /\ ret' = ret
  /\ hist' = [hist EXCEPT ![t].handlerRan = TRUE]
  /\ UNCHANGED <<dbVars, blobs, failedIngests, events, checkedOut, nextId, qr, others>>

\* AuthService.refresh: refreshTokenEntity.token = refreshToken; save
RefreshSave(t) ==
  /\ pc[t] = "rf_save"
  /\ IF SaveRejected(loc[t].entity, loc[t].entity.user)
     THEN /\ Propagate(t, "QueryFailed:unique_user")
          /\ UNCHANGED <<refreshTokens, known, superseded>>
     ELSE /\ refreshTokens' =
               SaveRefreshToken(loc[t].entity, loc[t].entity.user, loc[t].refreshToken)
          /\ LET r == [NoRet EXCEPT !.status = "ok",
                                    !.accessToken = loc[t].accessToken,
                                    !.refreshToken = loc[t].refreshToken] IN
               /\ ret' = [ret EXCEPT ![t] = r]
               /\ known' = known \cup Handed(r)
          /\ superseded' = superseded \cup HandedRefresh(loc[t].entity.user)
          /\ pc' = [pc EXCEPT ![t] = "done"]
  /\ UNCHANGED <<users, videos, blobs, failedIngests, events, checkedOut, nextId, qr, loc, hist,
                 envVars, nreq, req, guard>>

\* ------------------------------------------------------------ the requests
Body(email, password, passwordConfirm, extension, id) ==
  [NoReq EXCEPT !.email = email, !.password = password,
                !.passwordConfirm = passwordConfirm, !.extension = extension,
                !.mimetype = IF extension = "" THEN "" ELSE "video/mp4", !.id = id]

Presentable == Headers(known \cup ForeignTokens \cup OldTokens)

SignupRequest(t) ==
  \E e \in Emails, c \in Passwords :
    StartRequest(t, "signup", NoAuth, Body(e, "pw123456", c, "", 0))

SigninRequest(t) ==
  \E e \in Emails, p \in Passwords :
    StartRequest(t, "signin", NoAuth, Body(e, p, "", "", 0))

RefreshRequest(t) ==
  \E a \in Presentable : StartRequest(t, "refresh", a, NoReq)

UsersRequest(t) ==
  \E a \in Presentable : StartRequest(t, "users", a, NoReq)

VideosRequest(t) ==
  \E a \in Presentable : StartRequest(t, "videos", a, NoReq)

UploadRequest(t) ==
  \E a \in Presentable, x \in Extensions :
    StartRequest(t, "upload", a, Body("", "", "", x, 0))

DownloadRequest(t) ==
  \E a \in Presentable, id \in {v.id : v \in videos} \cup {0} :
    StartRequest(t, "download", a, Body("", "", "", "", id))

AuthRequest(t) == SignupRequest(t) \/ SigninRequest(t) \/ RefreshRequest(t)

OtherRequest(t) ==
  \/ UsersRequest(t) \/ VideosRequest(t) \/ UploadRequest(t) \/ DownloadRequest(t)

\* the steps of the handlers
Step(t) ==
  \/ Guard(t) \/ Finish(t)
  \/ SignupController(t) \/ Connect(t) \/ StartTransaction(t)
  \/ SignupFindUser(t) \/ SignupSaveUser(t) \/ SignupTokens(t)
  \/ FloatingSave(t) \/ Commit(t) \/ Catch(t) \/ Finally(t)
  \/ UploadController(t) \/ IngestFindUser(t) \/ IngestSaveVideo(t)
  \/ uploadVideo(t) \/ Publish(t)
  \/ FindVideos(t) \/ UsersHandler(t)
  \/ DownloadFind(t) \/ DownloadCount(t) \/ DownloadStat(t)
  \/ SigninValidate(t) \/ SigninFindToken(t) \/ SigninSave(t)
  \/ RefreshFind(t) \/ RefreshSave(t)

SeqTasks == {"t1"}

\* requests of every route, served one after the other
Next ==
  \/ Tick
  \/ \E t \in SeqTasks :
       \/ nreq < MaxRequests /\ (AuthRequest(t) \/ OtherRequest(t))
       \/ Step(t)

Spec == InitSeeded /\ [][Next]_vars

AuthStep(t) ==
  \/ Guard(t) \/ Finish(t)
  \/ SignupController(t) \/ Connect(t) \/ StartTransaction(t)
  \/ SignupFindUser(t) \/ SignupSaveUser(t) \/ SignupTokens(t)
  \/ FloatingSave(t) \/ Commit(t) \/ Catch(t) \/ Finally(t)
  \/ SigninValidate(t) \/ SigninFindToken(t) \/ SigninSave(t)
  \/ RefreshFind(t) \/ RefreshSave(t)

\* signup, signin and refresh requests, served one after the other
NextAuth ==
  \/ Tick
  \/ \E t \in SeqTasks :
       \/ nreq < MaxAuthRequests /\ AuthRequest(t)
       \/ AuthStep(t)

SpecAuth == Init /\ [][NextAuth]_vars

ProtectedStep(t) ==
  \/ Guard(t) \/ Finish(t)
  \/ StartTransaction(t) \/ Commit(t) \/ Catch(t) \/ Finally(t)
  \/ UploadController(t) \/ IngestFindUser(t) \/ IngestSaveVideo(t)
  \/ uploadVideo(t) \/ Publish(t)
  \/ FindVideos(t) \/ UsersHandler(t)
  \/ DownloadFind(t) \/ DownloadCount(t) \/ DownloadStat(t)
  \/ SigninValidate(t) \/ SigninFindToken(t) \/ SigninSave(t)
  \/ RefreshFind(t) \/ RefreshSave(t)

\* requests of the protected routes, and of signin, which hands out the
\* tokens they are called with, served one after the other on a database
\* that holds accounts
NextProtected ==
  \/ Tick
  \/ \E t \in SeqTasks :
       \/ nreq < MaxRequests /\ (SigninRequest(t) \/ RefreshRequest(t) \/ OtherRequest(t))
       \/ ProtectedStep(t)

SpecProtected == InitSeeded /\ [][NextProtected]_vars

\* a request to a public route; the client may send any Authorization header
PublicRequest(t) ==
  \E a \in Presentable, e \in Emails, p \in Passwords :
    \/ StartRequest(t, "signup", a, Body(e, "pw123456", p, "", 0))
    \/ StartRequest(t, "signin", a, Body(e, p, "", "", 0))

PublicStep(t) ==
  \/ Guard(t) \/ Finish(t)
  \/ SignupController(t) \/ Connect(t) \/ StartTransaction(t)
  \/ SignupFindUser(t) \/ SignupSaveUser(t) \/ SignupTokens(t)
  \/ FloatingSave(t) \/ Commit(t) \/ Catch(t) \/ Finally(t)
  \/ SigninValidate(t) \/ SigninFindToken(t) \/ SigninSave(t)

\* requests to the public routes, with any header, served one after the other
NextPublic ==
  \/ Tick
  \/ \E t \in SeqTasks :
       \/ nreq < MaxPublicRequests /\ PublicRequest(t)
       \/ PublicStep(t)

SpecPublic == InitSeeded /\ [][NextPublic]_vars

\* a refresh request of a client that presents a token it was handed
HeldTokenRefresh(t) ==
  \E k \in known : StartRequest(t, "refresh", [form |-> "jwt", token |-> k], NoReq)

SessionStep(t) ==
  \/ Guard(t) \/ Finish(t)
  \/ SigninValidate(t) \/ SigninFindToken(t) \/ SigninSave(t)
  \/ RefreshFind(t) \/ RefreshSave(t)

\* signin and refresh requests served concurrently on a database that holds
\* accounts: the awaited calls of the two tasks interleave in any order
NextSession ==
  \/ Tick
  \/ \E t \in Tasks :
       \/ nreq < MaxSessionRequests /\ (SigninRequest(t) \/ HeldTokenRefresh(t))
       \/ SessionStep(t)

SpecSession == InitWith(SeedUsers) /\ [][NextSession]_vars

\* the Authorization headers of signed-in members: an unexpired access token
\* of an account
MemberHeaders ==
  {[form |-> "jwt", token |-> k] : k \in {o \in OldTokens : o.kind = "access"}}

\* no task is serving an upload
NoUploadInFlight == \A o \in Tasks : req[o].route # "upload"

\* an upload arrives while the server is idle; downloads arrive at any time
\* once no upload is being served
MemberRequest(t) ==
  \E a \in MemberHeaders :
    \/ /\ \A o \in Tasks : pc[o] = "idle"
       /\ \E x \in Extensions : StartRequest(t, "upload", a, Body("", "", "", x, 0))
    \/ /\ NoUploadInFlight
       /\ \E id \in {v.id : v \in videos} :
            StartRequest(t, "download", a, Body("", "", "", "", id))

VideoStep(t) ==
  \/ Guard(t) \/ Finish(t)
  \/ StartTransaction(t) \/ Commit(t) \/ Catch(t) \/ Finally(t)
  \/ UploadController(t) \/ IngestFindUser(t) \/ IngestSaveVideo(t)
  \/ uploadVideo(t) \/ Publish(t)
  \/ DownloadFind(t) \/ DownloadCount(t) \/ DownloadStat(t)

\* uploads of signed-in members, each served alone, and their downloads,
\* served concurrently: the awaited calls of two downloads interleave in any
\* order
NextVideo ==
  \E t \in Tasks :
    \/ nreq < MaxVideoRequests /\ MemberRequest(t)
    \/ VideoStep(t)

SpecVideo == InitWith(SeedUsers) /\ [][NextVideo]_vars

RaceStep(t) ==
  \/ Guard(t) \/ Finish(t)
  \/ SignupController(t) \/ Connect(t) \/ StartTransaction(t)
  \/ SignupFindUser(t) \/ SignupSaveUser(t) \/ SignupTokens(t)
  \/ FloatingSave(t) \/ Commit(t) \/ Catch(t) \/ Finally(t)

\* signup requests served concurrently, within one second: the awaited
\* calls of the two tasks interleave in any order
NextRace ==
  \E t \in Tasks :
    \/ nreq < MaxSignups /\ SignupRequest(t)
    \/ RaceStep(t)

SpecRace == Init /\ [][NextRace]_vars

\* ------------------------------------------------------------------ claims
Decided(t) == guard[t].state # "Unchecked"

ValidAt(tok, time) == tok.sig = "good" /\ time < tok.iat + Ttl(tok.kind)

Presented(t) == req[t].auth.token

\* C1: on every non-public route, role-gated routes included, the guard
\* reaches Allowed only for a request whose token passes the signature and
\* expiry check
C1_AllowedOnlyIfVerified ==
  \A t \in Tasks :
    guard[t].state = "Allowed" =>
      req[t].auth.form = "jwt" /\ ValidAt(Presented(t), guard[t].at)

\* C2: on every protected route other than the refresh endpoint, a request
\* whose bearer token is a validly signed, unexpired refresh token is denied
\* with AccessTokenRequired and the route's handler never runs
C2_RefreshTokenDenied ==
  \A t \in Tasks :
    ( /\ Decided(t)
      /\ req[t].route \notin PublicRoutes \cup {"refresh"}
      /\ req[t].auth.form = "jwt"
      /\ Presented(t).kind = "refresh"
      /\ ValidAt(Presented(t), guard[t].at) )
    => /\ guard[t].state = "KindMismatch"
       /\ pc[t] = "done"
       /\ ret[t].status = "error" /\ ret[t].error = "AccessTokenRequired"
       /\ ~hist[t].handlerRan

\* a valid refresh token, handed out by signin, was presented to the
\* role-gated route and was denied
C2_Witness ==
  \E t \in Tasks :
    /\ req[t].route = "users"
    /\ Presented(t) \in known /\ Presented(t).kind = "refresh"
    /\ ValidAt(Presented(t), guard[t].at)
    /\ guard[t].state = "KindMismatch"

SignupEnded(t) == req[t].route = "signup" /\ pc[t] = "done"

\* the insert of the RefreshCredential row failed, or token generation
\* failed, after the Account row was inserted
FailedAfterAccountInsert(t) ==
  hist[t].failedAfterInsert = "su_tokens" \/ loc[t].floating = "failed"

\* C3: if token generation or the RefreshCredential insert fails after the
\* Account row was inserted, no Account row for that email survives the
\* signup (so a later signup with the same email can succeed)
C3_NoAccountSurvives ==
  \A t \in Tasks :
    SignupEnded(t) /\ FailedAfterAccountInsert(t) => UserByEmail(req[t].email) = {}

\* C4: whenever signup returns {id, accessToken, refreshToken}, the store
\* durably holds the Account and a RefreshCredential for it whose token is
\* the returned refreshToken
C4_ReturnedMeansDurable ==
  \A t \in Tasks :
    SignupEnded(t) /\ ret[t].status = "ok" =>
      /\ UserById(ret[t].id) # {}
      /\ \E r \in RefreshTokenOf(ret[t].id) : r.token = ret[t].refreshToken

\* the account a signin or refresh call is for
Account(t) ==
  IF req[t].route = "signin" THEN loc[t].userEntity.id ELSE guard[t].user.id

Succeeded(t, routes) ==
  req[t].route \in routes /\ pc[t] = "done" /\ ret[t].status = "ok"

\* C5: after a successful signin or refresh call for an account (calls
\* served one after the other), exactly one RefreshCredential row exists
\* for that account and it holds the refresh token that call returned
C5_SingleLiveRefreshToken ==
  \A t \in Tasks :
    Succeeded(t, {"signin", "refresh"}) =>
      /\ Cardinality(RefreshTokenOf(Account(t))) = 1
      /\ \A r \in RefreshTokenOf(Account(t)) : r.token = ret[t].refreshToken

\* a refresh succeeded and returned a token other than the one presented,
\* which the row held before
C5_Witness ==
  \E t \in Tasks :
    /\ Succeeded(t, {"refresh"})
    /\ Presented(t) \in superseded
    /\ ret[t].refreshToken # Presented(t)

\* C6: once a signin or refresh for an account has succeeded, every refresh
\* token returned by an earlier signup, signin or refresh of that account is
\* rejected by refresh: refresh never finds a row for such a token
C6_StaleTokenRejected ==
  \A t \in Tasks :
    req[t].route = "refresh" /\ pc[t] = "rf_save" => Presented(t) \notin superseded

\* C7: if the blob write fails after the VideoAsset row was inserted, no
\* VideoAsset row of that attempt survives and a listing of videos shows no
\* entry for it
C7_FailedIngestLeavesNoRow ==
  /\ \A v \in videos : v.id \notin failedIngests
  /\ \A t \in Tasks :
       req[t].route = "videos" /\ pc[t] = "done" => ret[t].list \cap failedIngests = {}
  /\ \A t \in Tasks :
       req[t].route = "upload" /\ pc[t] = "done" /\ hist[t].failedAfterInsert = "vi_upload"
         => ~hist[t].committed /\ ret[t].status = "error"

\* an ingest failed at the blob write and a later listing was served
C7_Witness ==
  \E t \in Tasks :
    /\ req[t].route = "videos" /\ pc[t] = "done" /\ ret[t].status = "ok"
    /\ failedIngests # {}

\* C8: a video-created event is published only after the transaction that
\* inserted that video has committed; none is published for an ingest whose
\* transaction rolls back or whose commit fails
C8_PublishedOnlyAfterCommit ==
  /\ \A i \in DOMAIN events : VideoById(events[i]) # {}
  /\ \A t \in Tasks :
       hist[t].published > 0 => hist[t].committed /\ ~hist[t].rolledBack
  /\ \A t \in Tasks :
       hist[t].firstError \in {"E_commit", "E_blob", "E_saveVideo", "E_find"}
         => hist[t].published = 0

\* an ingest committed and published its event
C8_Witness ==
  \E t \in Tasks :
    /\ req[t].route = "upload" /\ pc[t] = "done" /\ ret[t].status = "ok"
    /\ events = <<ret[t].id>>

\* C9: each transactional command releases the handle it acquired exactly
\* once on every exit path, so that whenever no command is in flight no
\* handle is checked out of the pool
C9_HandleReleasedOnce ==
  /\ (\A t \in Tasks : pc[t] \in {"idle", "done"}) => checkedOut = 0
  /\ \A t \in Tasks : pc[t] = "done" => qr[t].releases = hist[t].acquired

\* C10: when a step inside the transactional block fails, the transaction
\* is rolled back before the caller sees the failure, and the caller
\* receives the error of the failing step, also when the rollback fails
C10_OriginalErrorAfterRollback ==
  \A t \in Tasks :
    pc[t] = "done" /\ hist[t].firstError # "none" =>
      /\ ret[t].status = "error" /\ ret[t].error = hist[t].firstError
      /\ hist[t].rolledBack

Has(seq, x) == \E i \in DOMAIN seq : seq[i] = x

\* errors raised by the infrastructure (database, pool, signing), as opposed
\* to the outcomes of the signup logic itself
InfraErrors ==
  {"E_connect", "E_begin", "E_find", "E_saveUser", "E_token", "E_commit",
   "E_rollback", "TransactionNotStartedError"}

\* task t served a call of AuthService.signup to its end and no part of the
\* infrastructure failed under it (no statement of its transaction was
\* rejected for a reason other than the duplicate email)
CleanSignup(t) ==
  /\ SignupEnded(t)
  /\ req[t].password = req[t].passwordConfirm
  /\ hist[t].firstError \notin InfraErrors
  /\ ret[t].error \notin InfraErrors
  /\ Has(hist[t].order, "commit") => hist[t].committed

\* the two tasks each served a signup for the same email, which no account
\* had before these two calls
RacedSignups(e) ==
  /\ \A t \in Tasks : CleanSignup(t) /\ req[t].email = e
  /\ \A u \in UserByEmail(e) : \E t \in Tasks : loc[t].userEntity.id = u.id

\* C11: of two concurrent signup calls with the same not-yet-registered
\* email, under every interleaving exactly one returns successfully and
\* exactly one Account row for that email exists afterwards (and never more
\* than one row per email)
C11_OneSignupWins ==
  \A e \in Emails :
    /\ Cardinality(UserByEmail(e)) <= 1
    /\ RacedSignups(e) =>
         /\ Cardinality({t \in Tasks : ret[t].status = "ok"}) = 1
         /\ Cardinality(UserByEmail(e)) = 1

\* both calls passed the existence check, one committed and the other's
\* insert was rejected by the unique index
C11_Witness ==
  \E e \in Emails :
    /\ RacedSignups(e)
    /\ \E t \in Tasks : hist[t].firstError = "QueryFailed:unique_email"
    /\ \E t \in Tasks : ret[t].status = "ok"

\* C12: a signup that passed its own existence check and whose Account
\* insert then hit the unique index fails with DuplicateAccount, the error
\* of the existence check, and not with a raw storage error
C12_InsertRaceIsDuplicateAccount ==
  \A t \in Tasks :
    SignupEnded(t) /\ hist[t].firstError = "QueryFailed:unique_email" =>
      ret[t].status = "error" /\ ret[t].error = "BadRequest:DuplicateAccount"

\* the bearer token of task t's request is a validly signed, unexpired
\* token of the given kind
PresentsValid(t, kind) ==
  /\ Decided(t)
  /\ req[t].auth.form = "jwt"
  /\ Presented(t).kind = kind
  /\ ValidAt(Presented(t), guard[t].at)

C14_LookupMissIsUnauthenticated ==
  \A t \in Tasks :
    ( /\ Decided(t)
      /\ req[t].route \in RoleRoutes
      /\ req[t].auth.form = "jwt"
      /\ Presented(t).kind = "access"
      /\ UserById(Presented(t).sub) = {} )
    => /\ guard[t].state \in {"TokenMissing", "TokenInvalid"}
       /\ ret[t].status = "error" /\ ret[t].error = "Unauthorized"
       /\ ~hist[t].handlerRan

\* C15: a request to a public route (signup, signin) is allowed by the guard
\* whatever its Authorization header is (absent, malformed, any token); the
\* token is not inspected: the decision carries no error and no subject,
\* and the handler runs
C15_PublicBypass ==
  \A t \in Tasks :
    Decided(t) /\ req[t].route \in PublicRoutes =>
      /\ guard[t].state = "PublicAllowed"
      /\ guard[t].error = "none" /\ guard[t].user = NoUser
      /\ pc[t] = "done" => hist[t].handlerRan

\* a public route was requested with a header that a protected route
\* rejects (malformed, or a token signed with a foreign key) and its handler
\* answered
C15_Witness ==
  \E t \in Tasks :
    /\ req[t].route \in PublicRoutes
    /\ \/ req[t].auth.form \in {"nobearer", "bearer_empty", "garbage"}
       \/ req[t].auth.form = "jwt" /\ Presented(t).sig = "bad"
    /\ pc[t] = "done" /\ ret[t].status = "ok"

\* C16: a request to a non-public route whose Authorization header is
\* absent or malformed (no Bearer scheme, Bearer with no token after it, a
\* token that cannot be decoded) is denied with Unauthenticated, and its
\* handler never runs
C16_MalformedHeaderIsUnauthenticated ==
  \A t \in Tasks :
    ( /\ Decided(t)
      /\ req[t].route \notin PublicRoutes
      /\ req[t].auth.form \in {"absent", "nobearer", "bearer_empty", "garbage"} )
    => /\ guard[t].state \in {"TokenMissing", "TokenInvalid"}
       /\ ret[t].status = "error" /\ ret[t].error = "Unauthorized"
       /\ ~hist[t].handlerRan

\* C17: a request to the refresh endpoint that presents a valid access
\* token is rejected with the refresh endpoint's own error: it never gets
\* to the step that stores and returns new tokens, so no tokens are
\* returned and no RefreshCredential row is modified
C17_AccessTokenAtRefreshRejected ==
  \A t \in Tasks :
    req[t].route = "refresh" /\ PresentsValid(t, "access") =>
      /\ pc[t] # "rf_save"
      /\ pc[t] = "done" =>
           /\ ret[t].status = "error"
           /\ ret[t].error = "BadRequest:InvalidRefreshToken"
           /\ ret[t].accessToken = NoToken /\ ret[t].refreshToken = NoToken

\* an access token that signin handed out was presented to the refresh
\* endpoint while the account's refresh token was stored, and was turned down
C17_Witness ==
  \E t \in Tasks :
    /\ req[t].route = "refresh" /\ PresentsValid(t, "access")
    /\ Presented(t) \in known
    /\ RefreshTokenOf(Presented(t).sub) # {}
    /\ pc[t] = "done" /\ ret[t].error = "BadRequest:InvalidRefreshToken"

\* C18: whenever the guard allows a request on a non-public route, a route
\* that declares required roles included, the verified subject id of its
\* token is attached to the request (request.user) before the handler runs
C18_AllowedAttachesSubject ==
  \A t \in Tasks :
    guard[t].state = "Allowed" =>
      guard[t].verified /\ guard[t].user = [id |-> Presented(t).sub]

\* C19: every guard decision ends in exactly one of the terminal states
\* PublicAllowed, Allowed, TokenMissing, TokenInvalid, KindMismatch and
\* RoleDenied, never in an unclassified failure, and the route's handler
\* runs only after PublicAllowed or Allowed
C19_GuardStateMachine ==
  \A t \in Tasks :
    /\ pc[t] \in {"idle", "guard"} => guard[t].state = "Unchecked"
    /\ pc[t] \notin {"idle", "guard"} =>
         guard[t].state \in {"PublicAllowed", "Allowed", "TokenMissing", "TokenInvalid",
                             "KindMismatch", "RoleDenied"}
    /\ hist[t].handlerRan => guard[t].state \in {"PublicAllowed", "Allowed"}

\* C20: every successful CreateVideoHandler.execute publishes exactly one
\* video-created event, carrying the id of the video it returns, and that
\* video is the committed row; a failed execute publishes none
C20_OneEventPerIngest ==
  \A t \in Tasks :
    req[t].route = "upload" /\ pc[t] = "done" /\ hist[t].handlerRan =>
      /\ ret[t].status = "ok" =>
           /\ hist[t].published = 1
           /\ Cardinality({i \in DOMAIN events : events[i] = ret[t].id}) = 1
           /\ ret[t].id = loc[t].video.id /\ loc[t].video \in videos
      /\ ret[t].status = "error" => hist[t].published = 0

\* an ingest returned its video; the row is stored and its event is the
\* last one on the bus
C20_Witness ==
  \E t \in Tasks :
    /\ req[t].route = "upload" /\ pc[t] = "done" /\ ret[t].status = "ok"
    /\ loc[t].video \in videos
    /\ events # <<>> /\ events[Len(events)] = ret[t].id

\* task t served a signin that failed the check of email and password
FailedSignin(t) ==
  /\ req[t].route = "signin" /\ pc[t] = "done" /\ ret[t].status = "error"
  /\ loc[t].userEntity = NoRow

\* C21: a signin with an email that has no account and a signin with an
\* existing email and a wrong password fail with the same error, so a
\* failed signin does not tell whether the account exists
C21_FailedSigninsAlike ==
  \A t \in Tasks, o \in Tasks :
    FailedSignin(t) /\ FailedSignin(o) => ret[t].error = ret[o].error

\* the guard refused the request of task t
Denied(t) == guard[t].error # NoDecision.error

\* task t serves a signin or a refresh
SessionCall(t) == req[t].route \in {"signin", "refresh"}

\* C22: a request the guard denies, a signin that fails and a refresh that
\* fails change no Account, RefreshCredential or VideoAsset row at any of
\* their steps (a signin or refresh writes only in the step that makes it
\* succeed) and hand no token to the caller
C22_FailureLeavesRows ==
  /\ [](\A t \in SeqTasks :
          pc[t] = "done" /\ (Denied(t) \/ (SessionCall(t) /\ ret[t].status = "error"))
            => ret[t].accessToken = NoToken /\ ret[t].refreshToken = NoToken)
  /\ [][\A t \in SeqTasks :
          Denied(t)' \/ (SessionCall(t) /\ ret'[t].status # "ok") => dbVars' = dbVars]_vars

C22_Witness ==
  \E t \in SeqTasks :
    /\ pc[t] = "done" /\ req[t].route = "refresh" /\ ret[t].status = "error"
    /\ ~Denied(t) /\ refreshTokens # {} /\ users # {}

\* an Account with the email of t's request exists that t's call did not
\* insert
RegisteredBefore(t) ==
  \E u \in UserByEmail(req[t].email) : u.id # loc[t].userEntity.id

\* C23: a signup whose email belongs to a committed Account, served with no
\* infrastructure failure, fails with DuplicateAccount, returns no token,
\* has inserted nothing, and has rolled back its transaction and released
\* its handle once
C23_DuplicateSignupRejected ==
  \A t \in SeqTasks :
    CleanSignup(t) /\ RegisteredBefore(t) =>
      /\ ret[t].status = "error" /\ ret[t].error = "BadRequest:DuplicateAccount"
      /\ ret[t].accessToken = NoToken /\ ret[t].refreshToken = NoToken
      /\ loc[t].userEntity = NoRow /\ loc[t].floating = "none"
      /\ qr[t].wUsers = {} /\ qr[t].wTokens = {}
      /\ hist[t].rolledBack /\ ~hist[t].committed
      /\ ~qr[t].txActive /\ qr[t].isReleased /\ qr[t].releases = 1

C23_Witness ==
  \E t \in SeqTasks :
    /\ CleanSignup(t) /\ RegisteredBefore(t)
    /\ ret[t].error = "BadRequest:DuplicateAccount" /\ hist[t].rolledBack

\* C24: a signup whose password and passwordConfirm differ is rejected with
\* a bad-request error before a handle is acquired or a transaction begun:
\* its runner was never used, no statement ran and no row was written
C24_MismatchRejectedBeforeHandle ==
  \A t \in SeqTasks :
    SignupEnded(t) /\ req[t].password # req[t].passwordConfirm =>
      /\ ret[t].status = "error" /\ ret[t].error = "BadRequest:passwordConfirm"
      /\ ret[t].accessToken = NoToken /\ ret[t].refreshToken = NoToken
      /\ qr[t] = FreshRunner /\ loc[t] = NoLoc
      /\ hist[t].acquired = NoHist.acquired /\ ~hist[t].began /\ hist[t].order = << >>

C24_Witness ==
  \E t \in SeqTasks :
    /\ SignupEnded(t) /\ req[t].password # req[t].passwordConfirm
    /\ ret[t].error = "BadRequest:passwordConfirm" /\ users # {}

\* the blob store holds the complete bytes written for video id
BlobPresent(id) == \E b \in blobs : b.key.id = id /\ b.complete

\* C25: every committed VideoAsset row has its bytes in the blob store (the
\* write completed before the commit), and no blob left behind by a failed
\* ingest is referenced by a committed row
C25_CommittedRowHasBlob ==
  /\ \A v \in videos : BlobPresent(v.id)
  /\ \A b \in blobs : b.key.id \in failedIngests \/ ~b.complete => VideoById(b.key.id) = {}

C25_Witness ==
  /\ \E v \in videos : BlobPresent(v.id)
  /\ \E b \in blobs : b.key.id \in failedIngests /\ ~b.complete

\* task t served a video ingest to its end
IngestEnded(t) == req[t].route = "upload" /\ pc[t] = "done" /\ hist[t].handlerRan

\* the failures of the database, the blob store and the event bus under an
\* ingest
IngestFaults == InfraErrors \cup {"E_saveVideo", "E_blob", "E_publish"}

\* C26: a video ingest for a user id that has no Account fails with
\* OwnerNotFound (or with the failure of the infrastructure that cut it
\* short), creates no VideoAsset row and publishes no event, so that every
\* committed VideoAsset row names an existing Account as its owner
C26_IngestNeedsOwner ==
  /\ \A t \in SeqTasks :
       IngestEnded(t) /\ UserById(guard[t].user.id) = {} =>
         /\ ret[t].status = "error"
         /\ ret[t].error \in {"NotFound:OwnerNotFound"} \cup IngestFaults
         /\ VideoById(loc[t].video.id) = {} /\ hist[t].published = 0
  /\ \A v \in videos : UserById(v.user) # {}

\* the download counter of video id; 0 while the row does not exist
DownloadCnt(id) ==
  IF VideoById(id) = {} THEN 0 ELSE (CHOOSE v \in VideoById(id) : TRUE).downloadCnt

\* this step is the counter update of a download of video id by task t
CountsDownload(t, id) ==
  pc[t] = "dl_update" /\ pc'[t] = "dl_stat" /\ req[t].id = id

\* C27: the download counter of a VideoAsset is 0 when the row appears,
\* never decreases, and every step changes it by exactly the number of
\* download calls that update it in that step (one or none), whatever other
\* downloads are in flight: k download calls raise it by k
C27_CounterCountsDownloads ==
  [][\A id \in {v.id : v \in videos \cup videos'} :
       DownloadCnt(id)' = DownloadCnt(id) + Cardinality({t \in Tasks : CountsDownload(t, id)})]_vars

C27_Witness ==
  \E v \in videos :
    /\ v.downloadCnt = Cardinality(Tasks)
    /\ \A t \in Tasks : req[t].route = "download" /\ req[t].id = v.id /\ pc[t] = "dl_stat"

\* task t's request carries a token that an earlier call handed to its
\* caller, of the given kind, unexpired and not replaced since
PresentsHanded(t, kind) ==
  /\ PresentsValid(t, kind)
  /\ Presented(t) \in known /\ Presented(t) \notin superseded

\* C28: in the sequence signup, refresh with the refresh token signup
\* returned, upload with the access token refresh returned, every step
\* succeeds when no part of the infrastructure fails: a refresh at
\* /api/auth/refresh that presents a handed-out, unreplaced refresh token
\* returns a token pair for
\* its subject, and an upload that presents a handed-out access token
\* returns the id of a new video whose download counter is 0
C28_EndToEnd ==
  \A t \in SeqTasks :
    /\ /\ req[t].route = "refresh" /\ req[t].url = "/api/auth/refresh"
       /\ pc[t] = "done" /\ PresentsHanded(t, "refresh")
       => /\ ret[t].status = "ok"
          /\ ret[t].accessToken.sub = Presented(t).sub
          /\ ret[t].refreshToken.sub = Presented(t).sub
    /\ IngestEnded(t) /\ PresentsHanded(t, "access") /\ ret[t].error \notin IngestFaults
       => /\ ret[t].status = "ok"
          /\ \E v \in VideoById(ret[t].id) : v.downloadCnt = 0

\* task t's command found every handle of the pool checked out and was
\* queued for one
Waited(t) == Has(hist[t].order, "wait")

\* C29: when every handle of the pool is checked out, a signup or a video
\* ingest is never made to wait for one: it fails at once with a
\* resource-unavailable error and has written nothing
C29_ExhaustedPoolFailsAtOnce ==
  \A t \in SeqTasks :
    /\ ~Waited(t)
    /\ pc[t] = "done" /\ ret[t].error = "E_connect" =>
         qr[t] = FreshRunner /\ loc[t] = NoLoc

\* tasks t and o each served a refresh that presented the same refresh token
SameTokenRefreshes(t, o) ==
  /\ t # o
  /\ req[t].route = "refresh" /\ pc[t] = "done"
  /\ req[o].route = "refresh" /\ pc[o] = "done"
  /\ Presented(t) = Presented(o) /\ Presented(t).kind = "refresh"

\* C30: of two concurrent refresh calls that present the same stored refresh
\* token, one of which replaced it by a different token, at most one
\* succeeds, and afterwards the account's RefreshCredential holds the
\* refresh token returned to the successful caller
C30_OneRefreshPerToken ==
  \A t \in Tasks, o \in Tasks :
    SameTokenRefreshes(t, o) /\ ret[t].status = "ok" /\ ret[t].refreshToken # Presented(t) =>
      /\ ret[o].status # "ok"
      /\ \A r \in RefreshTokenOf(Presented(t).sub) : r.token = ret[t].refreshToken

\* C31: the refresh token stored in a RefreshCredential row names the row's
\* owning account as its subject; a refresh that found its row is rotating
\* the row of the subject it was called for, and a successful refresh
\* returns tokens whose subject is that same account
C31_StoredTokenNamesOwner ==
  /\ \A r \in refreshTokens : r.token.kind = "refresh" /\ r.token.sub = r.user
  /\ \A t \in Tasks :
       req[t].route = "refresh" /\ loc[t].entity # NoRow =>
         loc[t].entity.user = guard[t].user.id /\ guard[t].user.id = Presented(t).sub
  /\ \A t \in Tasks :
       Succeeded(t, {"refresh"}) =>
         /\ ret[t].accessToken.sub = guard[t].user.id
         /\ ret[t].refreshToken.sub = guard[t].user.id

C31_Witness ==
  \E t \in Tasks :
    /\ Succeeded(t, {"refresh"}) /\ Cardinality(refreshTokens) > 1
    /\ \E r \in RefreshTokenOf(guard[t].user.id) : r.token = ret[t].refreshToken

\* C32: signin calls for one account, served concurrently, never leave more
\* than one RefreshCredential row for it, also when the account had no row
\* when they started
C32_OneRowPerAccount ==
  \A u \in users : Cardinality(RefreshTokenOf(u.id)) <= 1

\* two signins of one account both found no row; one inserted it and the
\* other's insert was rejected
C32_Witness ==
  \E t \in Tasks, o \in Tasks :
    /\ t # o /\ Succeeded(t, {"signin"})
    /\ req[o].route = "signin" /\ pc[o] = "done" /\ ret[o].error = "QueryFailed:unique_user"
    /\ loc[t].entity = NoRow /\ loc[o].entity = NoRow
    /\ loc[t].userEntity.id = loc[o].userEntity.id
    /\ Cardinality(RefreshTokenOf(loc[t].userEntity.id)) = 1

\* the calls on the handle that the order of a command records: begin, a
\* commit that succeeded, a rollback that was invoked, release
IsTxCall(x) == x \in {"begin", "commit", "rollback", "release"}

TxCalls(t) == SelectSeq(hist[t].order, IsTxCall)

\* C33: in one invocation of signup or video ingest whose transaction
\* began, the handle sees begin, then exactly one of commit and rollback,
\* then release; rollback is never invoked after the commit succeeded
C33_BeginThenOneEndThenRelease ==
  \A t \in Tasks :
    /\ pc[t] = "done" /\ hist[t].began =>
         TxCalls(t) \in {<<"begin", "commit", "release">>, <<"begin", "rollback", "release">>}
    /\ \A i \in DOMAIN hist[t].order, j \in DOMAIN hist[t].order :
         hist[t].order[i] = "commit" /\ hist[t].order[j] = "rollback" => j < i

\* the key under which download looks for the bytes of video v
DownloadKey(v) == BlobKey(v.id, Subtype(v.mimetype))

\* C34: for every committed VideoAsset the key that download reads (id and
\* subtype of the stored content type) is the key under which ingest wrote
\* the bytes (id and extension of the uploaded file name), so that no
\* download of a committed video fails for a missing file
C34_DownloadKeyIsIngestKey ==
  /\ \A v \in videos : \E b \in blobs : b.key = DownloadKey(v) /\ b.complete
  /\ \A t \in Tasks :
       req[t].route = "download" /\ pc[t] = "done" /\ loc[t].video # NoRow =>
         ret[t].error # "ENOENT"

\* task t served a download that failed
FailedDownload(t) ==
  req[t].route = "download" /\ pc[t] = "done" /\ hist[t].handlerRan /\ ret[t].status = "error"

\* C35: a download that fails, because there is no such video or because
\* its file cannot be read, leaves the download counter of the video as the
\* call found it (downloads served one after the other)
C35_FailedDownloadNotCounted ==
  \A t \in SeqTasks :
    FailedDownload(t) =>
      /\ loc[t].video = NoRow => VideoById(req[t].id) = {}
      /\ loc[t].video # NoRow => DownloadCnt(req[t].id) = loc[t].video.downloadCnt

====
